---- MODULE Spec2Model ----
(***************************************************************************)
(* Model of the Kismet device monitor (src/server.py).                     *)
(*                                                                         *)
(* The monitor thread scans KISMET_DIR for *.kismet capture files, has the *)
(* external tool kismetdb_dump_devices convert each one that is due into   *)
(* <name>.json, and records the modification time it processed.  The HTTP  *)
(* thread answers /devices by reading the selected *.json files.           *)
(*                                                                         *)
(* server.py defines update_merged_devices twice.  The definition at lines *)
(* 766-790 rebinds the name, so it is the one monitor_kismet_files runs    *)
(* (specification Spec).  The definition at lines 474-519 holds the merge  *)
(* into all_devices; it is modelled as well (specification SpecMerge).     *)
(* Requests carry an empty search string and sort by type, last seen or    *)
(* packets.                                                                *)
(*                                                                         *)
(* The code only ever compares times that concern the same capture file    *)
(* (its mtime, the mtime of its json file, the mtime processed), so times  *)
(* are one logical clock per capture file that ticks at every write to the *)
(* file or its json.  Timestamps strftime'd by the parser are modelled as  *)
(* pair <<day, second of day>>, compared lexicographically like the        *)
(* "%Y-%m-%d %H:%M:%S" strings the code compares (time zone UTC).          *)
(***************************************************************************)
EXTENDS Integers, Sequences, FiniteSets, TLC

(* ---------------------------- bounds ----------------------------------- *)

\* last tick of a capture file's clock at which it or its json is written
MaxTime == 3

\* longest selected_files list a /devices request carries
MaxSelected == 2

(* -------------------------- program constants -------------------------- *)

PAGE_SIZE == 100

(* ------------------------------ helpers -------------------------------- *)

Range(s) == {s[i] : i \in DOMAIN s}

EmptyMap == [x \in {} |-> x]

\* dict[k] = v
Put(map, k, v) == [x \in (DOMAIN map) \cup {k} |-> IF x = k THEN v ELSE map[x]]

\* dict.get(k, default)
Get(d, k, default) == IF k \in DOMAIN d THEN d[k] ELSE default

\* every list holding exactly the elements of S once: the orders list(set(..))
\* and os.listdir may produce
RECURSIVE Orderings(_)
Orderings(S) ==
  IF S = {} THEN {<<>>}
  ELSE UNION {{<<x>> \o rest : rest \in Orderings(S \ {x})} : x \in S}

SeqsUpTo(S, n) == UNION {[1..k -> S] : k \in 0..n}

(* --------------------------- the directory ----------------------------- *)

\* the *.kismet files of KISMET_DIR
KismetFiles == {"a.kismet", "b.kismet"}

JsonName(f) == f \o ".json"

JsonFiles == {JsonName(f) : f \in KismetFiles}

\* json_file.replace('.json', '')
SourceOfJson(j) == CHOOSE f \in KismetFiles : JsonName(f) = j

Entry(mac, type, last_time, first_time, packets) ==
  ("kismet.device.base.macaddr" :> mac) @@
  ("kismet.device.base.type" :> type) @@
  ("kismet.device.base.manuf" :> "Acme") @@
  ("kismet.device.base.commonname" :> "lab") @@
  ("kismet.device.base.last_time" :> last_time) @@
  ("kismet.device.base.first_time" :> first_time) @@
  ("kismet.device.base.channel" :> "6") @@
  ("kismet.device.base.packets.total" :> packets) @@
  ("kismet.device.base.crypt" :> "WPA2") @@
  ("kismet.device.base.frequency" :> 2437000)

\* an entry that carries only what kismet always writes
SparseEntry(mac, last_time) ==
  ("kismet.device.base.macaddr" :> mac) @@
  ("kismet.device.base.name" :> mac) @@
  ("kismet.device.base.last_time" :> last_time) @@
  ("kismet.device.base.location" :>
     ("kismet.common.location.avg_loc" :>
        ("kismet.common.location.geopoint" :> <<13, 52>>))) @@
  ("kismet.device.base.frequency" :> 5180500)

\* an entry without a frequency
NoFreqEntry(mac, last_time) ==
  ("kismet.device.base.macaddr" :> mac) @@
  ("kismet.device.base.last_time" :> last_time)

\* an entry whose strings hold the characters the CSV export treats
QuotedEntry(mac, last_time) ==
  ("kismet.device.base.macaddr" :> mac) @@
  ("kismet.device.base.type" :> "Wi-Fi AP") @@
  ("kismet.device.base.manuf" :> "Acme, Inc.") @@
  ("kismet.device.base.commonname" :> "the \"lab\"") @@
  ("kismet.device.base.last_time" :> last_time) @@
  ("kismet.device.base.channel" :> "6") @@
  ("kismet.device.base.crypt" :> "WEP,\"TKIP\"") @@
  ("kismet.device.base.frequency" :> 2412000)

\* an entry whose name holds a line break
TwoLineEntry(mac, last_time) ==
  ("kismet.device.base.macaddr" :> mac) @@
  ("kismet.device.base.commonname" :> "top\nfloor") @@
  ("kismet.device.base.last_time" :> last_time) @@
  ("kismet.device.base.frequency" :> 2412000)

\* what kismetdb_dump_devices writes for the capture contents the model
\* draws from: a JSON array of device entries
Dumps ==
  << \* 1: one device, seen late on day 0
     << Entry("AA:BB:CC:DD:EE:FF", "Wi-Fi AP", 86399, 10, 5) >>,
     \* 2: the same device seen on day 1, and a sparse second device
     << Entry("AA:BB:CC:DD:EE:FF", "Wi-Fi Client", 86400, 20, 7),
        SparseEntry("11:22:33:44:55:66", 0) >>,
     \* 3: the same device with the last_time of dump 1 and other fields
     << Entry("AA:BB:CC:DD:EE:FF", "Wi-Fi Bridged", 86399, 30, 9) >>,
     \* 4: an entry the record parser cannot handle after a good one
     << SparseEntry("11:22:33:44:55:66", 3600),
        NoFreqEntry("AA:BB:CC:DD:EE:FF", 90000) >>,
     \* 5: a device with delimiters and quotes in its strings
     << QuotedEntry("AA:BB:CC:DD:EE:FF", 7200) >>,
     \* 6: a device with a line break in its name, and a plain one
     << TwoLineEntry("AA:BB:CC:DD:EE:FF", 7200),
        SparseEntry("11:22:33:44:55:66", 3600) >> >>

DumpIds == DOMAIN Dumps

\* the capture kismet is still writing, and the dumps its content goes through
Growing == {"a.kismet"}

GrowingDumps == {1, 3, 4}

NoJson == [exists |-> FALSE, complete |-> FALSE, mtime |-> 0, dump |-> 0]

NoTime == -1

(* --------------------------- Record Parser ----------------------------- *)

\* datetime.fromtimestamp(t).strftime("%Y-%m-%d %H:%M:%S")
strftime(t) == <<t \div 86400, t % 86400>>

\* a > b on two formatted timestamps (string comparison)
StrGreater(a, b) == a[1] > b[1] \/ (a[1] = b[1] /\ a[2] > b[2])

\* str(khz / 1000): integral and fractional part
FreqMHz(khz) == <<khz \div 1000, khz % 1000>>

\* the device_info dictionary both parsers build from one entry
DeviceInfo(device, freq, source) ==
  LET location ==
        Get(Get(Get(device, "kismet.device.base.location", EmptyMap),
                "kismet.common.location.avg_loc", EmptyMap),
            "kismet.common.location.geopoint", <<0, 0>>)
  IN [type |-> Get(device, "kismet.device.base.type", "Unknown"),
      mac |-> Get(device, "kismet.device.base.macaddr", "Unknown"),
      vendor |-> Get(device, "kismet.device.base.manuf", "Unknown"),
      name |-> Get(device, "kismet.device.base.commonname",
                   Get(device, "kismet.device.base.name", "Unknown")),
      last_seen |-> strftime(Get(device, "kismet.device.base.last_time", 0)),
      first_seen |-> strftime(Get(device, "kismet.device.base.first_time", 0)),
      channel |-> Get(device, "kismet.device.base.channel", "Unknown"),
      packets |-> Get(device, "kismet.device.base.packets.total", 0),
      longitude |-> IF Len(location) > 0 THEN location[1] ELSE 0,
      latitude |-> IF Len(location) > 1 THEN location[2] ELSE 0,
      comment |-> <<Get(device, "kismet.device.base.crypt", ""), " freq: ",
                    FreqMHz(freq)>>,
      sources |-> <<source>>]

\* the content json.load returns, or failure
CanLoad(j) == j.exists /\ j.complete

\* parse_json_file: any exception gives the empty list; an entry without
\* "kismet.device.base.frequency" raises (None / 1000)
parse_ok(j) ==
  /\ CanLoad(j)
  /\ \A i \in DOMAIN Dumps[j.dump] :
        "kismet.device.base.frequency" \in DOMAIN Dumps[j.dump][i]

parse_json_file(j, source_file) ==
  IF parse_ok(j)
  THEN [i \in DOMAIN Dumps[j.dump] |->
          DeviceInfo(Dumps[j.dump][i],
                     Dumps[j.dump][i]["kismet.device.base.frequency"],
                     source_file)]
  ELSE <<>>

(* ------------------------------ state ---------------------------------- *)

VARIABLES
  now,               \* per *.kismet file: the clock of its writes
  src,               \* per *.kismet file: its mtime and the dump its content gives
  json,              \* per *.kismet file: the <name>.json next to it
  saved,             \* merged_devices.json.gz
  processed_files,   \* global dict filename -> mtime processed
  all_devices,       \* global dict MAC -> device_info, in insertion order
  pc,                \* where the monitor thread is
  kismet_files,      \* the files the cycle's for loop has not visited yet
  current_mod_time,  \* of the file the loop is at
  updated,           \* the cycle's flag
  devices,           \* the parsed records the merge loop has not visited yet
  conv_dump,         \* the capture content the running converter read
  q_pc,              \* where the request thread is
  selected_files,    \* the selected files filter_devices has not read yet
  q_devices,         \* the list filter_devices builds and returns
  q_sel0,            \* history: the selection the request came with
  q_expect,          \* history: what the *.json files held when the request started
  visited,           \* history: the files this cycle's loop has visited
  converted,         \* history: the files convert_kismet_to_json accepted in this cycle
  prev_devices,      \* history: all_devices when the previous cycle completed
  changed,           \* history: no cycle has completed yet, or a capture
                     \* file's content changed since the last one did
  merge_case,        \* history: the branch the last round of the merge loop took
  ingested,          \* history: the <<file, dump>> whose records were merged
  fresh,             \* history: this cycle parsed a dump not merged before
  hist,              \* history: what the staleness test, the converter and
                     \* main did (see Init)
  call               \* a call of a function taken alone: arguments and result

fsvars == <<now, src, json, saved>>
monvars == <<processed_files, all_devices, pc, kismet_files, current_mod_time,
             updated, devices, conv_dump>>
qvars == <<q_pc, selected_files, q_devices, q_sel0, q_expect>>
histvars == <<visited, converted, prev_devices, changed, merge_case, ingested,
              fresh>>
vars == <<fsvars, monvars, qvars, histvars, hist, call>>

\* the file the for loop is at
filename == Head(kismet_files)

\* the program when main has started the two threads
Start ==
  /\ now = [f \in KismetFiles |-> 1]
  /\ src = [f \in KismetFiles |->
              [mtime |-> 0, dump |-> IF f = "a.kismet" THEN 1 ELSE 2]]
  /\ json = [f \in KismetFiles |-> NoJson]
  /\ saved = [exists |-> FALSE, complete |-> FALSE, data |-> <<>>]
  /\ processed_files = EmptyMap
  /\ all_devices = <<>>
  /\ pc = "sleep"
  /\ kismet_files = <<>>
  /\ current_mod_time = NoTime
  /\ updated = FALSE
  /\ devices = <<>>
  /\ conv_dump = 0
  /\ q_pc = "idle"
  /\ selected_files = <<>>
  /\ q_devices = <<>>
  /\ q_sel0 = <<>>
  /\ q_expect = <<>>
  /\ visited = {}
  /\ converted = {}
  /\ prev_devices = <<>>
  /\ changed = TRUE
  /\ merge_case = "none"
  /\ ingested = {}
  /\ fresh = FALSE
  /\ hist = [skipped |-> {},
             \* the files this cycle's staleness test passed over
             conv |-> [f \in KismetFiles |-> "none"],
             \* per file, how its last conversion ended, if it was not
             \* modified since: "ok" (the tool exited with 0), "reused"
             \* (the artifact of such a run was accepted later), "failed"
             restarted |-> FALSE,
             \* main has started again and its first cycle has not ended
             raised |-> FALSE]
             \* update_merged_devices raised and no cycle has ended since

Init ==
  /\ Start
  /\ call = [op |-> "none"]

(* ----------------------- the capture directory ------------------------- *)

\* kismet writes to a capture file: its content gives dump d from now on
\* (d may be the dump it gave before)
ModifyFile(f, d) ==
  /\ now[f] <= MaxTime
  /\ src' = [src EXCEPT ![f] = [mtime |-> now[f], dump |-> d]]
  /\ now' = [now EXCEPT ![f] = @ + 1]
  /\ changed' = (changed \/ d # src[f].dump)
  /\ prev_devices' = IF changed' THEN <<>> ELSE prev_devices
  /\ UNCHANGED <<json, saved, monvars, qvars, visited, converted, merge_case,
                 ingested, fresh>>
  /\ hist' = [hist EXCEPT !.conv[f] = "none"]
  /\ UNCHANGED call

(* ------------------------- Ingestion Scheduler ------------------------- *)

\* AlreadyProcessed with > for >=
AlreadyProcessed_Strict(f, mod_time) ==
  f \in DOMAIN processed_files /\ processed_files[f] > mod_time

\* the staleness test of the for loop
AlreadyProcessed(f, mod_time) ==
  f \in DOMAIN processed_files /\ processed_files[f] >= mod_time

\* the freshness test of convert_kismet_to_json
UseExistingJson(f) == json[f].exists /\ json[f].mtime > src[f].mtime

\* Continue with "break" for "continue"
Continue_Break(files) == <<>>

\* "continue": the for loop goes on to the next file
Continue(files) == Tail(files)

\* the end of the loop body: the for loop goes on to the next file
NextFile(files) == Tail(files)

\* monitor_kismet_files calls update_merged_devices: os.listdir
StartCycle ==
  /\ pc = "sleep"
  /\ \E order \in Orderings(KismetFiles) : kismet_files' = order
  /\ pc' = "loop"
  /\ updated' = FALSE
  /\ visited' = {}
  /\ converted' = {}
  /\ fresh' = FALSE
  /\ UNCHANGED <<fsvars, processed_files, all_devices, current_mod_time,
                 devices, conv_dump, qvars, prev_devices, changed, merge_case,
                 ingested>>
  /\ hist' = [hist EXCEPT !.skipped = {}]
  /\ UNCHANGED call

\* AfterException without the try statement: the exception ends the thread
AfterException_Exits == "stopped"

\* where monitor_kismet_files is after update_merged_devices has raised: the
\* except clause logs the exception, and time.sleep is next
AfterException == "sleep"

\* os.listdir(KISMET_DIR) raises: update_merged_devices ends with the
\* exception before it has looked at a file
CycleRaises ==
  /\ pc = "sleep"
  /\ pc' = AfterException
  /\ visited' = {}
  /\ converted' = {}
  /\ fresh' = FALSE
  /\ hist' = [hist EXCEPT !.skipped = {}, !.raised = TRUE]
  /\ UNCHANGED <<fsvars, processed_files, all_devices, kismet_files,
                 current_mod_time, updated, devices, conv_dump, qvars,
                 prev_devices, changed, merge_case, ingested, call>>

\* os.path.getmtime(kismet_file) raises: continue
GetMTimeError ==
  /\ pc = "loop" /\ kismet_files # <<>>
  /\ kismet_files' = Continue(kismet_files)
  /\ visited' = visited \cup {filename}
  /\ UNCHANGED <<fsvars, processed_files, all_devices, pc, current_mod_time,
                 updated, devices, conv_dump, qvars, converted, prev_devices,
                 changed, merge_case, ingested, fresh>>
  /\ UNCHANGED <<hist, call>>

\* the file was processed at this mtime: continue
SkipProcessed ==
  /\ pc = "loop" /\ kismet_files # <<>>
  /\ AlreadyProcessed(filename, src[filename].mtime)
  /\ kismet_files' = Continue(kismet_files)
  /\ visited' = visited \cup {filename}
  /\ UNCHANGED <<fsvars, processed_files, all_devices, pc, current_mod_time,
                 updated, devices, conv_dump, qvars, converted, prev_devices,
                 changed, merge_case, ingested, fresh>>
  /\ hist' = [hist EXCEPT !.skipped = @ \cup {filename}]
  /\ UNCHANGED call

\* convert_kismet_to_json returns False without running the tool:
\* shutil.which finds none, or a call raises
ConvertUnavailable ==
  /\ pc = "loop" /\ kismet_files # <<>>
  /\ ~AlreadyProcessed(filename, src[filename].mtime)
  /\ ~UseExistingJson(filename)
  /\ kismet_files' = NextFile(kismet_files)
  /\ visited' = visited \cup {filename}
  /\ UNCHANGED <<fsvars, processed_files, all_devices, pc, current_mod_time,
                 updated, devices, conv_dump, qvars, converted, prev_devices,
                 changed, merge_case, ingested, fresh>>
  /\ hist' = [hist EXCEPT !.conv[filename] = "failed"]
  /\ UNCHANGED call

\* subprocess.run(["kismetdb_dump_devices", "--in", .., "--out", ..]) starts
RunTool ==
  /\ pc = "loop" /\ kismet_files # <<>>
  /\ ~AlreadyProcessed(filename, src[filename].mtime)
  /\ ~UseExistingJson(filename)
  /\ now[filename] <= MaxTime
  /\ current_mod_time' = src[filename].mtime
  /\ conv_dump' = src[filename].dump
  /\ pc' = "converting"
  /\ UNCHANGED <<fsvars, processed_files, all_devices, kismet_files, updated,
                 devices, qvars, histvars>>
  /\ UNCHANGED <<hist, call>>

\* the running tool has opened its output and written part of it
ToolWrites ==
  /\ pc = "converting"
  /\ ~(json[filename].exists /\ ~json[filename].complete)
  /\ json' = [json EXCEPT ![filename] =
                [exists |-> TRUE, complete |-> FALSE, mtime |-> now[filename],
                 dump |-> 0]]
  /\ UNCHANGED <<now, src, saved, monvars, qvars, histvars>>
  /\ UNCHANGED <<hist, call>>

\* ToolFails with "processed_files[filename] = current_mod_time" after the if
\* statement instead of inside it
ToolFails_Records ==
  /\ pc = "converting"
  /\ json' = [json EXCEPT ![filename] =
                IF @.exists /\ ~@.complete THEN [@ EXCEPT !.mtime = now[filename]]
                ELSE @]
  /\ now' = IF json[filename].exists /\ ~json[filename].complete
            THEN [now EXCEPT ![filename] = @ + 1] ELSE now
  /\ pc' = "loop"
  /\ kismet_files' = NextFile(kismet_files)
  /\ visited' = visited \cup {filename}
  /\ processed_files' = Put(processed_files, filename, current_mod_time)
  /\ current_mod_time' = NoTime
  /\ conv_dump' = 0
  /\ hist' = [hist EXCEPT !.conv[filename] = "failed"]
  /\ UNCHANGED <<src, saved, all_devices, updated, devices, qvars, converted,
                 prev_devices, changed, merge_case, ingested, fresh, call>>

\* the tool exits with a non-zero status: whatever it wrote stays
ToolFails ==
  /\ pc = "converting"
  /\ json' = [json EXCEPT ![filename] =
                IF @.exists /\ ~@.complete THEN [@ EXCEPT !.mtime = now[filename]]
                ELSE @]
  /\ now' = IF json[filename].exists /\ ~json[filename].complete
            THEN [now EXCEPT ![filename] = @ + 1] ELSE now
  /\ pc' = "loop"
  /\ kismet_files' = NextFile(kismet_files)
  /\ visited' = visited \cup {filename}
  /\ current_mod_time' = NoTime
  /\ conv_dump' = 0
  /\ UNCHANGED <<src, saved, processed_files, all_devices, updated, devices,
                 qvars, converted, prev_devices, changed, merge_case, ingested,
                 fresh>>
  /\ hist' = [hist EXCEPT !.conv[filename] = "failed"]
  /\ UNCHANGED call

\* the values os.path.getmtime may give for the artifact of a run that ends
\* now: the clock's, or, when kismet wrote to the capture file during the run
\* and no part of the output was written later, the one of that write (two
\* writes of one clock tick)
OutputTimes ==
  {now[filename]} \cup
  IF /\ src[filename].mtime > current_mod_time
     /\ ~(json[filename].exists /\ json[filename].mtime > src[filename].mtime)
  THEN {src[filename].mtime}
  ELSE {}

\* the json file a run of the tool that exits with status 0 leaves
ToolOutput(mtime) ==
  [exists |-> TRUE, complete |-> TRUE, mtime |-> mtime, dump |-> conv_dump]

(* update_merged_devices as defined at line 766 *)

\* if convert_kismet_to_json(..): processed_files[filename] = current_mod_time
Processed766(mod_time) ==
  /\ processed_files' = Put(processed_files, filename, mod_time)
  /\ kismet_files' = NextFile(kismet_files)
  /\ pc' = "loop"
  /\ visited' = visited \cup {filename}
  /\ converted' = converted \cup {filename}
  /\ current_mod_time' = NoTime
  /\ conv_dump' = 0
  /\ UNCHANGED <<all_devices, updated, devices, qvars, saved, prev_devices,
                 changed, merge_case, ingested, fresh>>

UseExisting766 ==
  /\ pc = "loop" /\ kismet_files # <<>>
  /\ ~AlreadyProcessed(filename, src[filename].mtime)
  /\ UseExistingJson(filename)
  /\ Processed766(src[filename].mtime)
  /\ UNCHANGED <<now, src, json>>
  /\ hist' = [hist EXCEPT !.conv[filename] =
                 CASE @ = "failed" -> "none" [] @ = "ok" -> "reused"
                   [] OTHER -> @]
  /\ UNCHANGED call

ToolSucceeds766 ==
  /\ pc = "converting"
  /\ \E mtime \in OutputTimes : json' = [json EXCEPT ![filename] = ToolOutput(mtime)]
  /\ now' = [now EXCEPT ![filename] = @ + 1]
  /\ Processed766(current_mod_time)
  /\ UNCHANGED src
  /\ hist' = [hist EXCEPT !.conv[filename] = "ok"]
  /\ UNCHANGED call

EndCycle766 ==
  /\ pc = "loop" /\ kismet_files = <<>>
  /\ pc' = "sleep"
  /\ prev_devices' = all_devices
  /\ changed' = FALSE
  /\ hist' = [hist EXCEPT !.skipped = {}, !.restarted = FALSE,
                          !.raised = FALSE]
  /\ UNCHANGED <<fsvars, processed_files, all_devices, kismet_files,
                 current_mod_time, updated, devices, conv_dump, qvars, visited,
                 converted, merge_case, ingested, fresh>>
  /\ UNCHANGED call

(* update_merged_devices as defined at line 474 *)

Has(store, mac) == \E i \in DOMAIN store : store[i].mac = mac

Lookup(store, mac) == store[CHOOSE i \in DOMAIN store : store[i].mac = mac]

\* Merged with a merge that keeps the first first_seen
Merged_KeepFirstSeen(old, device, source) ==
  {[device EXCEPT !.first_seen = old.first_seen]}

\* the records all_devices[mac] may hold after the three statements of the
\* "last_seen is newer" branch
Merged(old, device, source) ==
  LET appended == IF source \in Range(old.sources) THEN old.sources
                  ELSE Append(old.sources, source)
      old1 == [old EXCEPT !.sources = appended]
      \* all_devices[mac].update(device)
      upd == [k \in DOMAIN old1 \cup DOMAIN device |->
                IF k \in DOMAIN device THEN device[k] ELSE old1[k]]
  IN \* list(set(..)) keeps the elements in an order of its own
     {[upd EXCEPT !.sources = o] : o \in Orderings(Range(upd.sources))}

\* IsNewer with the comparison turned round
IsNewer_Older(device, old) == StrGreater(old.last_seen, device.last_seen)

\* IsNewer with >= for >
IsNewer_NotOlder(device, old) == ~StrGreater(old.last_seen, device.last_seen)

\* IsNewer without the comparison
IsNewer_Always(device, old) == TRUE

\* "if device["last_seen"] > all_devices[mac]["last_seen"]"
IsNewer(device, old) == StrGreater(device.last_seen, old.last_seen)

\* the body of "for device in devices": the values all_devices may have after
MergeDevice(store, device, source) ==
  IF Has(store, device.mac)
  THEN IF IsNewer(device, Lookup(store, device.mac))
       THEN {[i \in DOMAIN store |->
                IF store[i].mac = device.mac THEN m ELSE store[i]] :
             m \in Merged(Lookup(store, device.mac), device, source)}
       ELSE {store}
  ELSE {Append(store, device)}

\* MergeUpdates with "updated = True" in the insert branch only
MergeUpdates_InsertOnly(store, device) == ~Has(store, device.mac)

\* whether that body sets updated = True
MergeUpdates(store, device) ==
  Has(store, device.mac) => IsNewer(device, Lookup(store, device.mac))

\* if convert_kismet_to_json(..): devices = parse_json_file(json_file, filename)
Parsed498(j) ==
  /\ devices' = parse_json_file(j, filename)
  /\ pc' = "merge"
  /\ converted' = converted \cup {filename}
  /\ fresh' = (fresh \/ (parse_ok(j) /\ <<filename, j.dump>> \notin ingested))
  /\ conv_dump' = 0
  /\ UNCHANGED <<src, saved, processed_files, all_devices, kismet_files,
                 updated, qvars, visited, prev_devices, changed, merge_case,
                 ingested>>

UseExisting498 ==
  /\ pc = "loop" /\ kismet_files # <<>>
  /\ ~AlreadyProcessed(filename, src[filename].mtime)
  /\ UseExistingJson(filename)
  /\ current_mod_time' = src[filename].mtime
  /\ Parsed498(json[filename])
  /\ UNCHANGED <<now, json>>
  /\ hist' = [hist EXCEPT !.conv[filename] =
                 CASE @ = "failed" -> "none" [] @ = "ok" -> "reused"
                   [] OTHER -> @]
  /\ UNCHANGED call

ToolSucceeds498 ==
  /\ pc = "converting"
  /\ \E mtime \in OutputTimes : json' = [json EXCEPT ![filename] = ToolOutput(mtime)]
  /\ now' = [now EXCEPT ![filename] = @ + 1]
  /\ Parsed498(json'[filename])
  /\ UNCHANGED current_mod_time
  /\ hist' = [hist EXCEPT !.conv[filename] = "ok"]
  /\ UNCHANGED call

\* which branch the body takes
MergeCase(store, device) ==
  IF ~Has(store, device.mac) THEN "insert"
  ELSE IF StrGreater(device.last_seen, Lookup(store, device.mac).last_seen)
       THEN "newer"
  ELSE IF device.last_seen = Lookup(store, device.mac).last_seen THEN "equal"
  ELSE "older"

\* one round of "for device in devices"
MergeStep ==
  /\ pc = "merge" /\ devices # <<>>
  /\ all_devices' \in MergeDevice(all_devices, Head(devices), filename)
  /\ updated' = (updated \/ MergeUpdates(all_devices, Head(devices)))
  /\ devices' = Tail(devices)
  /\ merge_case' = MergeCase(all_devices, Head(devices))
  /\ UNCHANGED <<fsvars, processed_files, pc, kismet_files, current_mod_time,
                 conv_dump, qvars, visited, converted, prev_devices, changed,
                 ingested, fresh>>
  /\ UNCHANGED <<hist, call>>

\* processed_files[filename] = current_mod_time, and on to the next file
MergeDone ==
  /\ pc = "merge" /\ devices = <<>>
  /\ processed_files' = Put(processed_files, filename, current_mod_time)
  /\ kismet_files' = NextFile(kismet_files)
  /\ pc' = "loop"
  /\ current_mod_time' = NoTime
  /\ visited' = visited \cup {filename}
  /\ ingested' = IF parse_ok(json[filename])
                 THEN ingested \cup {<<filename, json[filename].dump>>}
                 ELSE ingested
  /\ merge_case' = "none"
  /\ UNCHANGED <<fsvars, all_devices, updated, devices, conv_dump, qvars,
                 converted, prev_devices, changed, fresh>>
  /\ UNCHANGED <<hist, call>>

\* "if updated: device_manager.save_devices()"; save_devices catches what
\* store_merged_devices raises, whatever was written by then stays
EndCycle498 ==
  /\ pc = "loop" /\ kismet_files = <<>>
  /\ pc' = "sleep"
  /\ \/ ~updated /\ UNCHANGED saved
     \/ updated /\ saved' = [exists |-> TRUE, complete |-> TRUE,
                             data |-> all_devices]
     \/ updated /\ saved' = [exists |-> TRUE, complete |-> FALSE, data |-> <<>>]
  /\ prev_devices' = all_devices
  /\ changed' = FALSE
  /\ hist' = [hist EXCEPT !.skipped = {}, !.restarted = FALSE,
                          !.raised = FALSE]
  /\ UNCHANGED <<now, src, json, processed_files, all_devices, kismet_files,
                 current_mod_time, updated, devices, conv_dump, qvars, visited,
                 converted, merge_case, ingested, fresh>>
  /\ UNCHANGED call

(* ---------------------- the snapshot and start-up ---------------------- *)

\* the longest snapshot load_devices is called with
MaxSnapshot == 3

\* load_merged_devices: gzip.open(.., "rt") and json.load raise on a missing
\* or a truncated file
CanLoadSnapshot(file) == file.exists /\ file.complete

\* all_devices[device["mac"]] = device: a dict keeps the position of a key it
\* holds already
StoreAt(store, device) ==
  IF Has(store, device.mac)
  THEN [i \in DOMAIN store |->
          IF store[i].mac = device.mac THEN device ELSE store[i]]
  ELSE Append(store, device)

\* "for device in devices" of load_devices: device["mac"] raises KeyError on
\* an entry without the key, and the except clause ends the call
RECURSIVE LoadLoop(_, _)
LoadLoop(store, list) ==
  IF list = <<>> THEN store
  ELSE IF "mac" \notin DOMAIN Head(list) THEN store
  ELSE LoadLoop(StoreAt(store, Head(list)), Tail(list))

\* whether the try block of load_devices ends in the except clause
LoadFails(file) ==
  \/ ~CanLoadSnapshot(file)
  \/ \E i \in DOMAIN file.data : "mac" \notin DOMAIN file.data[i]

\* all_devices after load_devices: all_devices.clear() comes after
\* load_merged_devices has returned
load_devices(store, file) ==
  IF ~CanLoadSnapshot(file) THEN store
  ELSE LoadLoop(<<>>, file.data)

\* the records the snapshots of the model are made of: what the parser gives
\* for the dumps, and an entry that has lost its "mac" key
SnapshotEntries ==
  LET a == parse_json_file([NoJson EXCEPT !.exists = TRUE, !.complete = TRUE,
                                          !.dump = 1], "a.kismet")
      b == parse_json_file([NoJson EXCEPT !.exists = TRUE, !.complete = TRUE,
                                          !.dump = 2], "b.kismet")
  IN Range(a) \cup Range(b) \cup
     {[k \in DOMAIN a[1] \ {"mac"} |-> a[1][k]]}

\* merged_devices.json.gz as load_devices may find it
SnapshotFiles ==
  {[exists |-> FALSE, complete |-> FALSE, data |-> <<>>],
   [exists |-> TRUE, complete |-> FALSE, data |-> <<>>]} \cup
  {[exists |-> TRUE, complete |-> TRUE, data |-> d] :
     d \in SeqsUpTo(SnapshotEntries, MaxSnapshot)}

\* all_devices as load_devices may find it: empty as at start-up, or holding
\* a record
StoresBefore ==
  {<<>>,
   parse_json_file([NoJson EXCEPT !.exists = TRUE, !.complete = TRUE,
                                  !.dump = 3], "a.kismet")}

\* device_manager.load_devices() is called
CallLoadDevices ==
  /\ call.op = "load_devices" /\ ~call.returned
  /\ call' = [call EXCEPT !.returned = TRUE,
                          !.failed = LoadFails(call.file),
                          !.all_devices = load_devices(call.all_devices,
                                                       call.file)]
  /\ UNCHANGED <<fsvars, monvars, qvars, histvars, hist>>

\* the process is stopped between two steps of the monitor and started again:
\* the module's globals are empty dicts, and main creates the DeviceManager,
\* starts the two threads and calls nothing else
Restart ==
  /\ pc # "converting"
  /\ processed_files' = EmptyMap
  /\ all_devices' = <<>>
  /\ pc' = "sleep"
  /\ kismet_files' = <<>>
  /\ current_mod_time' = NoTime
  /\ updated' = FALSE
  /\ devices' = <<>>
  /\ conv_dump' = 0
  /\ visited' = {}
  /\ converted' = {}
  /\ prev_devices' = <<>>
  /\ changed' = TRUE
  /\ merge_case' = "none"
  /\ ingested' = {}
  /\ fresh' = FALSE
  /\ hist' = [hist EXCEPT !.skipped = {}, !.restarted = TRUE]
  /\ UNCHANGED <<fsvars, qvars, call>>

(* ---------------------------- Query Engine ----------------------------- *)

\* the columns a /devices request may sort by in the model
SortColumns == {0, 5, 7}

\* the rank of str(x).lower() among the type strings of the model
LowerRank(type) ==
  CASE type = "Unknown" -> 1
    [] type = "Wi-Fi AP" -> 2
    [] type = "Wi-Fi Bridged" -> 3
    [] type = "Wi-Fi Client" -> 4

\* key(a) < key(b) for the key function filter_devices sorts column col by
KeyLess(col, a, b) ==
  CASE col = 0 -> LowerRank(a.type) < LowerRank(b.type)
    [] col = 5 -> StrGreater(b.last_seen, a.last_seen)
    [] col = 7 -> a.packets < b.packets

\* a descending sort that is the ascending one read backwards
Before_TiesReversed(col, reverse, a, b) ==
  IF reverse THEN ~KeyLess(col, a, b) ELSE KeyLess(col, a, b)

\* a goes before b when the sort meets a after b
Before(col, reverse, a, b) ==
  IF reverse THEN KeyLess(col, b, a) ELSE KeyLess(col, a, b)

\* list.sort(key=.., reverse=..): stable in both directions
RECURSIVE InsertSorted(_, _, _, _)
InsertSorted(sorted, x, col, reverse) ==
  IF sorted = <<>> THEN <<x>>
  ELSE IF Before(col, reverse, x, Head(sorted)) THEN <<x>> \o sorted
  ELSE <<Head(sorted)>> \o InsertSorted(Tail(sorted), x, col, reverse)

RECURSIVE SortDevices(_, _, _)
SortDevices(devs, col, reverse) ==
  IF devs = <<>> THEN <<>>
  ELSE InsertSorted(SortDevices(SubSeq(devs, 1, Len(devs) - 1), col, reverse),
                    devs[Len(devs)], col, reverse)

\* the records filter_devices appends for one selected file: none when open
\* or json.load raises
LoadSelected(files, json_file) ==
  IF json_file \in JsonFiles /\ CanLoad(files[SourceOfJson(json_file)])
  THEN LET j == files[SourceOfJson(json_file)]
       IN [i \in DOMAIN Dumps[j.dump] |->
             DeviceInfo(Dumps[j.dump][i],
                        Get(Dumps[j.dump][i], "kismet.device.base.frequency", 0),
                        SourceOfJson(json_file))]
  ELSE <<>>

\* the list filter_devices builds from a selection read in one go
RECURSIVE LoadAll(_, _)
LoadAll(files, selection) ==
  IF selection = <<>> THEN <<>>
  ELSE LoadSelected(files, Head(selection)) \o LoadAll(files, Tail(selection))

\* c.lower() for one character
LowerChar(c) ==
  CASE c = "A" -> "a" [] c = "B" -> "b" [] c = "C" -> "c" [] c = "D" -> "d"
    [] c = "E" -> "e" [] c = "F" -> "f" [] c = "G" -> "g" [] c = "H" -> "h"
    [] c = "I" -> "i" [] c = "J" -> "j" [] c = "K" -> "k" [] c = "L" -> "l"
    [] c = "M" -> "m" [] c = "N" -> "n" [] c = "O" -> "o" [] c = "P" -> "p"
    [] c = "Q" -> "q" [] c = "R" -> "r" [] c = "S" -> "s" [] c = "T" -> "t"
    [] c = "U" -> "u" [] c = "V" -> "v" [] c = "W" -> "w" [] c = "X" -> "x"
    [] c = "Y" -> "y" [] c = "Z" -> "z" [] OTHER -> c

\* s.lower()
RECURSIVE lower(_)
lower(s) ==
  IF s = "" THEN ""
  ELSE LowerChar(SubSeq(s, 1, 1)) \o lower(SubSeq(s, 2, Len(s)))

\* sub in text
In(sub, text) ==
  \E i \in 0..(Len(text) - Len(sub)) : SubSeq(text, i + 1, i + Len(sub)) = sub

\* s.replace(old, new) for a one-character old
RECURSIVE replace(_, _, _)
replace(s, old, new) ==
  IF s = "" THEN ""
  ELSE (IF SubSeq(s, 1, 1) = old THEN new ELSE SubSeq(s, 1, 1))
         \o replace(SubSeq(s, 2, Len(s)), old, new)

\* sep.join(list)
RECURSIVE join(_, _)
join(sep, list) ==
  IF list = <<>> THEN ""
  ELSE IF Len(list) = 1 THEN list[1]
  ELSE list[1] \o sep \o join(sep, Tail(list))

Digit(d) == SubSeq("0123456789", d + 1, d + 1)

TwoDigits(n) == Digit(n \div 10) \o Digit(n % 10)

\* str(n) for an integer n >= 0
RECURSIVE StrInt(_)
StrInt(n) == IF n < 10 THEN Digit(n) ELSE StrInt(n \div 10) \o Digit(n % 10)

\* str(khz / 1000) for the value FreqMHz keeps: "2437.0", "5180.5"
StrFloat(f) ==
  StrInt(f[1]) \o "." \o
    (IF f[2] % 100 = 0 THEN Digit(f[2] \div 100)
     ELSE IF f[2] % 10 = 0 THEN Digit(f[2] \div 100) \o Digit((f[2] \div 10) % 10)
     ELSE Digit(f[2] \div 100) \o Digit((f[2] \div 10) % 10) \o Digit(f[2] % 10))

\* the "%Y-%m-%d %H:%M:%S" string of a timestamp of January 1970
StrTime(ts) ==
  "1970-01-" \o TwoDigits(ts[1] + 1) \o " " \o TwoDigits(ts[2] \div 3600)
    \o ":" \o TwoDigits((ts[2] \div 60) % 60) \o ":" \o TwoDigits(ts[2] % 60)

\* crypt + " freq: " + str(frequency / 1000)
CommentText(device) ==
  device.comment[1] \o device.comment[2] \o StrFloat(device.comment[3])

\* str(list) of a list of strings
StrList(list) ==
  "[" \o join(", ", [i \in DOMAIN list |-> "'" \o list[i] \o "'"]) \o "]"

\* str(device.get(field, ""))
StrField(device, field) ==
  CASE field \in {"type", "mac", "vendor", "name", "channel"} -> device[field]
    [] field = "comment" -> CommentText(device)
    [] field = "packets" -> StrInt(device.packets)
    [] field \in {"first_seen", "last_seen"} -> StrTime(device[field])
    [] field \in {"latitude", "longitude"} -> StrInt(device[field])
    [] field = "sources" -> StrList(device.sources)
    [] OTHER -> ""

\* the text searched for field "all", without the comment
searchable_text_NoComment(device) ==
  lower(device.type \o " " \o device.mac \o " " \o device.vendor \o " "
          \o device.name \o " " \o device.channel)

\* the text searched for field "all"
searchable_text(device) ==
  lower(device.type \o " " \o device.mac \o " " \o device.vendor \o " "
          \o device.name \o " " \o device.channel \o " " \o CommentText(device))

\* the test of the search loop; search_query is lower-cased already
Matches(device, search_query, search_field) ==
  IF search_field = "all"
  THEN In(search_query, searchable_text(device))
  ELSE In(search_query, lower(StrField(device, search_field)))

\* "if search_query:" and the loop that keeps the matching devices
SearchFilter(devs, search_query, search_field) ==
  IF search_query = "" THEN devs
  ELSE LET keep(device) == Matches(device, lower(search_query), search_field)
       IN SelectSeq(devs, keep)

\* do_GET for /devices calls filter_devices (empty search string)
QueryStart(selection) ==
  /\ q_pc = "idle"
  /\ q_sel0' = selection
  /\ q_expect' = LoadAll(json, selection)
  /\ selected_files' = selection
  /\ q_devices' = <<>>
  /\ q_pc' = IF selection = <<>> THEN "done" ELSE "reading"
  /\ UNCHANGED <<fsvars, monvars, histvars>>
  /\ UNCHANGED <<hist, call>>

\* one round of "for json_file in selected_files"
QueryRead ==
  /\ q_pc = "reading" /\ selected_files # <<>>
  /\ q_devices' = q_devices \o LoadSelected(json, Head(selected_files))
  /\ selected_files' = Tail(selected_files)
  /\ UNCHANGED <<q_pc, q_sel0, q_expect, fsvars, monvars, histvars>>
  /\ UNCHANGED <<hist, call>>

\* the sort, and the return
QuerySort(sort_column, sort_asc) ==
  /\ q_pc = "reading" /\ selected_files = <<>>
  /\ q_devices' = SortDevices(q_devices, sort_column, ~sort_asc)
  /\ q_pc' = "done"
  /\ UNCHANGED <<selected_files, q_sel0, q_expect, fsvars, monvars, histvars>>
  /\ UNCHANGED <<hist, call>>

\* the response is written
QueryRespond ==
  /\ q_pc = "done"
  /\ q_pc' = "idle"
  /\ q_devices' = <<>>
  /\ q_sel0' = <<>>
  /\ q_expect' = <<>>
  /\ UNCHANGED <<selected_files, fsvars, monvars, histvars>>
  /\ UNCHANGED <<hist, call>>

Query ==
  \/ \E selection \in SeqsUpTo(JsonFiles, MaxSelected) : QueryStart(selection)
  \/ QueryRead
  \/ \E sort_column \in SortColumns, sort_asc \in BOOLEAN :
        QuerySort(sort_column, sort_asc)
  \/ QueryRespond

(* ------------------------- a /devices request -------------------------- *)

\* the strings int() is called with in the model
PageStrings == {"1", "2", "0", "-1", "abc", "1.5"}

\* whether int(s) returns; it raises ValueError otherwise
IsInt(s) == s \in {"1", "2", "0", "-1", "5", "7", "9"}

int(s) ==
  CASE s = "1" -> 1 [] s = "2" -> 2 [] s = "0" -> 0 [] s = "-1" -> -1
    [] s = "5" -> 5 [] s = "7" -> 7 [] s = "9" -> 9

\* the strings json.loads is called with in the model
FilesStrings ==
  {"[]", "[\"a.kismet.json\"]", "[\"b.kismet.json\", \"a.kismet.json\"]",
   "[\"a.kismet.json\"", "a.kismet.json"}

\* whether json.loads(s) returns; it raises json.JSONDecodeError otherwise
IsJson(s) ==
  s \in {"[]", "[\"a.kismet.json\"]", "[\"b.kismet.json\", \"a.kismet.json\"]"}

json_loads(s) ==
  CASE s = "[]" -> <<>>
    [] s = "[\"a.kismet.json\"]" -> <<"a.kismet.json">>
    [] s = "[\"b.kismet.json\", \"a.kismet.json\"]" ->
         <<"b.kismet.json", "a.kismet.json">>

\* what parse_qs gives for the query strings of the model: a parameter is
\* absent or has one non-empty value
Queries ==
  {q \in UNION {[keys -> PageStrings \cup FilesStrings] :
                  keys \in SUBSET {"page", "files"}} :
     /\ "page" \in DOMAIN q => q["page"] \in PageStrings
     /\ "files" \in DOMAIN q => q["files"] \in FilesStrings}

\* the *.json files a request may find
RequestDirs ==
  LET done(d) == [exists |-> TRUE, complete |-> TRUE, mtime |-> 1, dump |-> d]
  IN {[f \in KismetFiles |-> IF f = "a.kismet" THEN done(1) ELSE done(2)],
      [f \in KismetFiles |-> IF f = "a.kismet" THEN NoJson ELSE done(2)],
      [f \in KismetFiles |-> IF f = "a.kismet" THEN done(3) ELSE NoJson]}

Min(a, b) == IF a < b THEN a ELSE b

Max(a, b) == IF a > b THEN a ELSE b

\* list[start:stop] taking the stop-th element too
Slice_Inclusive(list, start, stop) ==
  LET clip(i) == IF i < 0 THEN Max(i + Len(list), 0) ELSE Min(i, Len(list))
  IN IF clip(start) < clip(stop)
     THEN SubSeq(list, clip(start) + 1, Min(clip(stop) + 1, Len(list)))
     ELSE <<>>

\* list[start:stop]: a negative index counts from the end, and both are
\* clipped to the list
Slice(list, start, stop) ==
  LET clip(i) == IF i < 0 THEN Max(i + Len(list), 0) ELSE Min(i, Len(list))
  IN IF clip(start) < clip(stop)
     THEN SubSeq(list, clip(start) + 1, clip(stop))
     ELSE <<>>

\* the column names of sort_key: sort_key = [..][sort_column] raises
\* IndexError outside them
SortKeys == 9

SortKeyError(sort_column) == sort_column \notin (-SortKeys)..(SortKeys - 1)

\* the part of filter_devices after "if not selected_files": the list it
\* has built, sorted unless looking up sort_key raises
FilterSelected(files, search_query, search_field, sort_column, sort_asc, selection) ==
  LET found == SearchFilter(LoadAll(files, selection), search_query,
                            search_field)
  IN IF SortKeyError(sort_column) THEN found
     ELSE SortDevices(found,
                      IF sort_column < 0 THEN sort_column + SortKeys
                      ELSE sort_column,
                      ~sort_asc)

\* a filter_devices for which no selection means every file
filter_devices_All(files, search_query, search_field, sort_column, sort_asc, selection) ==
  FilterSelected(files, search_query, search_field, sort_column, sort_asc,
                 IF selection = <<>>
                 THEN <<"a.kismet.json", "b.kismet.json">> ELSE selection)

\* whether filter_devices ends with IndexError
filter_devices_raises(sort_column, selection) ==
  selection # <<>> /\ SortKeyError(sort_column)

\* the list filter_devices returns when it does not raise
filter_devices(files, search_query, search_field, sort_column, sort_asc, selection) ==
  IF selection = <<>> THEN <<>>
  ELSE FilterSelected(files, search_query, search_field, sort_column, sort_asc,
                      selection)

\* the regular JSON paginated response of do_GET
response_data(filtered_devices, page) ==
  LET start_idx == (page - 1) * PAGE_SIZE
      end_idx == start_idx + PAGE_SIZE
  IN [status |-> "200",
      devices |-> Slice(filtered_devices, start_idx, end_idx),
      total |-> Len(filtered_devices),
      page |-> page,
      pages |-> (Len(filtered_devices) + PAGE_SIZE - 1) \div PAGE_SIZE]

\* the header row of the CSV export
headers ==
  <<"Type", "MAC Address", "Vendor", "Name", "First Seen", "Last Seen",
    "Channel", "Packets", "Comment", "Latitude", "Longitude", "Sources">>

\* the row of one device
row(device) ==
  <<StrField(device, "type"), StrField(device, "mac"),
    StrField(device, "vendor"), StrField(device, "name"),
    StrField(device, "first_seen"), StrField(device, "last_seen"),
    StrField(device, "channel"), StrField(device, "packets"),
    replace(StrField(device, "comment"), ",", ";"),
    StrField(device, "latitude"), StrField(device, "longitude"),
    join(";", device.sources)>>

\* every field wrapped in quotes, the quotes inside it doubled
escaped_row(device) ==
  [i \in DOMAIN row(device) |->
     "\"" \o replace(row(device)[i], "\"", "\"\"") \o "\""]

\* what the export writes to the connection: the header, then the devices
RECURSIVE csv_rows(_)
csv_rows(devs) ==
  IF devs = <<>> THEN ""
  ELSE join(",", escaped_row(Head(devs))) \o "\n" \o csv_rows(Tail(devs))

csv(devs) == join(",", headers) \o "\n" \o csv_rows(devs)

\* what do_GET sends for /devices, or the exception it ends with
do_GET(files, query) ==
  IF ~IsInt(Get(query, "page", "1")) \/ ~IsInt(Get(query, "sort", "0"))
  THEN [status |-> "ValueError"]
  ELSE LET page == int(Get(query, "page", "1"))
           search == Get(query, "search", "")
           field == Get(query, "field", "all")
           sort_column == int(Get(query, "sort", "0"))
           sort_asc == Get(query, "order", "asc") = "asc"
           download == lower(Get(query, "download", "false")) = "true"
           files_param == Get(query, "files", "[]")
           selected == IF IsJson(files_param) THEN json_loads(files_param)
                       ELSE <<>>
           filtered_devices == filter_devices(files, search, field, sort_column,
                                              sort_asc, selected)
       IN IF filter_devices_raises(sort_column, selected)
          THEN [status |-> "IndexError"]
          ELSE IF download
          THEN [status |-> "200", csv |-> csv(filtered_devices)]
          ELSE response_data(filtered_devices, page)

\* the handler runs for a request
CallDoGet ==
  /\ call.op = "GET /devices" /\ ~call.returned
  /\ call' = [call EXCEPT !.returned = TRUE,
                          !.response = do_GET(call.files, call.query)]
  /\ UNCHANGED <<fsvars, monvars, qvars, histvars, hist>>

\* the query strings of requests that use every parameter: each parameter
\* is absent or has one of a few values
Param(k, values) == {EmptyMap} \cup {(k :> v) : v \in values}

FullQueries ==
  {p @@ f @@ s @@ fl @@ so @@ o @@ d :
     p \in Param("page", {"2"}),
     f \in Param("files", {"[]", "[\"a.kismet.json\"", "[\"a.kismet.json\"]",
                           "[\"b.kismet.json\", \"a.kismet.json\"]"}),
     s \in Param("search", {"wi-fi", "zz"}),
     fl \in Param("field", {"name"}),
     so \in Param("sort", {"7", "9"}),
     o \in Param("order", {"desc"}),
     d \in Param("download", {"True"})}

\* the directories of RequestDirs, and two whose files hold the strings of
\* QuotedEntry and TwoLineEntry
QueryDirs ==
  LET done(d) == [exists |-> TRUE, complete |-> TRUE, mtime |-> 1, dump |-> d]
  IN RequestDirs \cup
       {[f \in KismetFiles |-> IF f = "a.kismet" THEN done(5) ELSE done(2)],
        [f \in KismetFiles |-> IF f = "a.kismet" THEN done(6) ELSE NoJson]}

\* the search strings and the field names of the requests of the model
SearchStrings ==
  {"", "wi-fi", "AP aa", "LAB 6", "6 wpa2", "Acme", "unknown", "5180.5",
   "11:22", "6", "zz"}

SearchFields ==
  {"all", "type", "mac", "vendor", "name", "channel", "comment", "packets",
   "nosuch"}

\* filter_devices runs for the arguments of a request
CallFilterDevices ==
  /\ call.op = "filter_devices" /\ ~call.returned
  /\ call' = [call EXCEPT
                !.returned = TRUE,
                !.result = filter_devices(call.files, call.search_query,
                                          call.search_field, call.sort_column,
                                          call.sort_asc, call.selected_files)]
  /\ UNCHANGED <<fsvars, monvars, qvars, histvars, hist>>

\* the lists the sort is checked on: up to MaxSorted records of distinct
\* identifiers, with packet counts whose order as numbers and as strings differ
MaxSorted == 3

PacketCounts == {9, 10, 100}

SortInputs ==
  UNION {{[i \in 1..Len(macs) |-> [mac |-> macs[i], packets |-> counts[i]]] :
            counts \in [1..Len(macs) -> PacketCounts]} :
         macs \in UNION {Orderings(S) : S \in SUBSET (1..MaxSorted)}}

\* devices.sort(key=lambda x: int(x["packets"]), reverse=not sort_asc) for
\* one request
CallSort(sort_asc) ==
  /\ call.op = "sort"
  /\ IF sort_asc
     THEN /\ "asc" \notin call.returned
          /\ call' = [call EXCEPT !.returned = @ \cup {"asc"},
                                  !.asc = SortDevices(call.devices, 7, FALSE)]
     ELSE /\ "desc" \notin call.returned
          /\ call' = [call EXCEPT !.returned = @ \cup {"desc"},
                                  !.desc = SortDevices(call.devices, 7, TRUE)]
  /\ UNCHANGED <<fsvars, monvars, qvars, histvars, hist>>

\* the lists and page numbers the pagination is checked on
MaxDevices == 250

MaxPage == 4

\* a list of n records as filter_devices may return it
DeviceList(n) == [i \in 1..n |-> [mac |-> i]]

\* the handler builds the page of a filtered list
CallResponseData ==
  /\ call.op = "page" /\ ~call.returned
  /\ call' = [call EXCEPT !.returned = TRUE,
                          !.response = response_data(call.filtered_devices,
                                                     call.page)]
  /\ UNCHANGED <<fsvars, monvars, qvars, histvars, hist>>

(* --------------------------- specifications ---------------------------- *)

Environment ==
  \/ \E f \in Growing, d \in GrowingDumps : ModifyFile(f, d)
  \/ ToolWrites

Next ==
  \/ Environment
  \/ StartCycle
  \/ GetMTimeError
  \/ SkipProcessed
  \/ ConvertUnavailable
  \/ RunTool
  \/ ToolFails
  \/ UseExisting766
  \/ ToolSucceeds766
  \/ EndCycle766
  \/ Query

Spec == Init /\ [][Next]_vars

\* the monitor running the definition of line 474; requests write nothing
\* the monitor reads and are left out
NextMerge ==
  \/ Environment
  \/ StartCycle
  \/ GetMTimeError
  \/ SkipProcessed
  \/ ConvertUnavailable
  \/ RunTool
  \/ ToolFails
  \/ UseExisting498
  \/ ToolSucceeds498
  \/ MergeStep
  \/ MergeDone
  \/ EndCycle498

SpecMerge == Init /\ [][NextMerge]_vars

\* the monitor of line 474 in a process that is stopped and started again
NextRestart ==
  \/ NextMerge
  \/ Restart

SpecRestart == Init /\ [][NextRestart]_vars

\* load_devices taken alone, called on a store and a snapshot file
InitLoad ==
  /\ Start
  /\ \E store \in StoresBefore, file \in SnapshotFiles :
        call = [op |-> "load_devices", returned |-> FALSE, failed |-> FALSE,
                all_devices |-> store, file |-> file]

NextLoad == CallLoadDevices

SpecLoad == InitLoad /\ [][NextLoad]_vars

\* the steps of the monitor thread running the definition of line 766
Monitor766 ==
  \/ StartCycle
  \/ CycleRaises
  \/ GetMTimeError
  \/ SkipProcessed
  \/ ConvertUnavailable
  \/ RunTool
  \/ ToolFails
  \/ UseExisting766
  \/ ToolSucceeds766
  \/ EndCycle766

NextLive ==
  \/ Environment
  \/ Monitor766

\* the monitor thread is never starved, the call of the tool returns, and a
\* file that is convertible is one whose conversion, tried again and again,
\* does not fail for ever
Fairness ==
  /\ WF_vars(Monitor766)
  /\ SF_vars(RunTool)
  /\ SF_vars(UseExisting766)
  /\ SF_vars(ToolSucceeds766)

SpecLive == Init /\ [][NextLive]_vars /\ Fairness

\* do_GET taken alone, called for a /devices request on a directory
InitRequest ==
  /\ Start
  /\ \E files \in RequestDirs, query \in Queries :
        call = [op |-> "GET /devices", returned |-> FALSE, files |-> files,
                query |-> query, response |-> [status |-> "none"]]

NextRequest == CallDoGet

SpecRequest == InitRequest /\ [][NextRequest]_vars

\* the pagination of do_GET taken alone, on a filtered list and a page number
InitPage ==
  /\ Start
  /\ \E n \in 0..MaxDevices, page \in 1..MaxPage :
        call = [op |-> "page", returned |-> FALSE,
                filtered_devices |-> DeviceList(n), page |-> page,
                response |-> [status |-> "none"]]

NextPage == CallResponseData

SpecPage == InitPage /\ [][NextPage]_vars

\* the sort of filter_devices taken alone: the same list requested in
\* ascending and in descending order of the packets column
InitSort ==
  /\ Start
  /\ \E devs \in SortInputs :
        call = [op |-> "sort", returned |-> {}, devices |-> devs,
                asc |-> <<>>, desc |-> <<>>]

NextSort == \E sort_asc \in BOOLEAN : CallSort(sort_asc)

SpecSort == InitSort /\ [][NextSort]_vars

\* filter_devices taken alone, called with a search string and a field on
\* the files of a directory
InitSearch ==
  /\ Start
  /\ \E files \in RequestDirs, search_query \in SearchStrings,
        search_field \in SearchFields,
        selection \in {<<"a.kismet.json">>, <<"b.kismet.json", "a.kismet.json">>} :
        call = [op |-> "filter_devices", returned |-> FALSE, files |-> files,
                search_query |-> search_query, search_field |-> search_field,
                sort_column |-> 0, sort_asc |-> TRUE,
                selected_files |-> selection, result |-> <<>>]

NextSearch == CallFilterDevices

SpecSearch == InitSearch /\ [][NextSearch]_vars

\* do_GET taken alone, called for a /devices request that may use every
\* parameter
InitQuery ==
  /\ Start
  /\ \E files \in QueryDirs, query \in FullQueries :
        call = [op |-> "GET /devices", returned |-> FALSE, files |-> files,
                query |-> query, response |-> [status |-> "none"]]

NextQuery == CallDoGet

SpecQuery == InitQuery /\ [][NextQuery]_vars

(* ------------------------------- claims -------------------------------- *)

\* a step that is one round of the merge loop
IsMergeStep == pc = "merge" /\ devices # <<>> /\ devices' = Tail(devices)

\* the later of two formatted timestamps
MaxSeen(a, b) == IF StrGreater(a, b) THEN a ELSE b

\* the fields of a record other than mac and sources
DataFields ==
  {"type", "vendor", "name", "first_seen", "last_seen", "channel", "packets",
   "comment", "latitude", "longitude"}

\* the store holds the record's identifier with a last_seen at least as large
Covered(store, device) ==
  /\ Has(store, device.mac)
  /\ ~StrGreater(device.last_seen, Lookup(store, device.mac).last_seen)

\* C1: whenever the merge loop processes a record whose identifier is already
\* stored, newer or not, the stored record's sources afterwards are exactly
\* the union of the stored and the incoming record's source files.
C1_SourcesAreUnion ==
  [][(IsMergeStep /\ Has(all_devices, Head(devices).mac)) =>
       Range(Lookup(all_devices', Head(devices).mac).sources) =
         Range(Lookup(all_devices, Head(devices).mac).sources)
           \cup Range(Head(devices).sources)]_vars

\* C2: whenever a cycle sets or advances a file's processed timestamp, every
\* record parsed from that file's json is in all_devices with a last_seen at
\* least as large as the record's.
C2_ProcessedMeansMerged ==
  [][\A f \in KismetFiles :
       (f \in DOMAIN processed_files' /\
        (f \in DOMAIN processed_files => processed_files'[f] # processed_files[f]))
       => \A i \in DOMAIN parse_json_file(json'[f], f) :
             Covered(all_devices', parse_json_file(json'[f], f)[i])]_vars

\* C3: when the merge loop processes a record whose identifier is stored with
\* a strictly older last_seen, every field of the stored record other than
\* sources equals the incoming record's afterwards.
C3_NewerOverwrites ==
  [][(/\ IsMergeStep
      /\ Has(all_devices, Head(devices).mac)
      /\ StrGreater(Head(devices).last_seen,
                    Lookup(all_devices, Head(devices).mac).last_seen))
     => /\ Has(all_devices', Head(devices).mac)
        /\ \A k \in DataFields \cup {"mac"} :
              Lookup(all_devices', Head(devices).mac)[k] = Head(devices)[k]]_vars

\* C3's case: a stored record has just been overwritten by a newer one
C3_Witness ==
  /\ merge_case = "newer"
  /\ \E i \in DOMAIN all_devices :
        /\ all_devices[i].mac = "AA:BB:CC:DD:EE:FF"
        /\ all_devices[i].type = "Wi-Fi Client"
        /\ all_devices[i].last_seen = strftime(86400)

\* C4: the stored last_seen of an identifier never decreases, and right after
\* the merge loop processed a record of a stored identifier it is the later
\* of the previous stored last_seen and the record's.
C4_LastSeenMonotone ==
  [][/\ \A i \in DOMAIN all_devices :
          /\ Has(all_devices', all_devices[i].mac)
          /\ ~StrGreater(all_devices[i].last_seen,
                         Lookup(all_devices', all_devices[i].mac).last_seen)
     /\ (IsMergeStep /\ Has(all_devices, Head(devices).mac)) =>
          Lookup(all_devices', Head(devices).mac).last_seen =
            MaxSeen(Lookup(all_devices, Head(devices).mac).last_seen,
                    Head(devices).last_seen)]_vars

\* C4's case: a record older than the stored one has just been processed
C4_Witness ==
  /\ merge_case = "older"
  /\ \E i \in DOMAIN all_devices :
        /\ all_devices[i].mac = "AA:BB:CC:DD:EE:FF"
        /\ all_devices[i].last_seen = strftime(86400)

\* C5: when the merge loop processes a record whose identifier is stored and
\* whose last_seen is equal to or older than the stored one, all_devices is
\* left as it was, sources included, and the record does not raise updated.
C5_StaleIsNoOp ==
  [][(/\ IsMergeStep
      /\ Has(all_devices, Head(devices).mac)
      /\ ~StrGreater(Head(devices).last_seen,
                     Lookup(all_devices, Head(devices).mac).last_seen))
     => /\ all_devices' = all_devices
        /\ updated' = updated]_vars

\* C5's case: a record with the stored last_seen and other fields has just
\* been processed, in a cycle that had changed nothing before
C5_Witness ==
  /\ merge_case = "equal"
  /\ ~updated
  /\ \E i \in DOMAIN all_devices :
        /\ all_devices[i].mac = "AA:BB:CC:DD:EE:FF"
        /\ all_devices[i].type = "Wi-Fi AP"
        /\ current_mod_time # NoTime
        /\ json[filename].dump = 3

\* the cycle's for loop has ended
LoopEnded == pc = "loop" /\ kismet_files = <<>>

\* C6 as stated: a cycle run when no capture file's content has changed since
\* the previous completed cycle ends with all_devices as that cycle left it.
C6_RerunChangesNothing ==
  (LoopEnded /\ ~changed) => all_devices = prev_devices

\* C6 as amended: a cycle run when no capture file's content has changed since
\* the previous completed cycle, and which parses no dump that no earlier
\* cycle merged, ends with all_devices as the previous cycle left it.
C6_ReingestChangesNothing ==
  (LoopEnded /\ ~changed /\ ~fresh) => all_devices = prev_devices

\* C6's case: the cycle has parsed and merged again the json of a file whose
\* records are in the store
C6_Witness ==
  /\ LoopEnded /\ ~changed /\ ~fresh
  /\ "a.kismet" \in converted
  /\ <<"a.kismet", json["a.kismet"].dump>> \in ingested
  /\ Len(all_devices) = 2

\* C7: a file's processed timestamp is set or advanced only when its json was
\* converted, parsed and merged in that cycle; when parse_json_file fails
\* the timestamp stays as it was.
C7_ProcessedOnlyOnSuccess ==
  [][\A f \in KismetFiles :
       (f \in DOMAIN processed_files' /\
        (f \in DOMAIN processed_files => processed_files'[f] # processed_files[f]))
       => parse_ok(json[f])]_vars

\* C8: when the for loop of a cycle ends, every capture file of the listing
\* has had its turn, whatever failed for the others, and the records of every
\* file whose json was accepted in the cycle are merged.
C8_FailureIsolated ==
  LoopEnded =>
    /\ visited = KismetFiles
    /\ \A f \in converted :
         \A i \in DOMAIN parse_json_file(json[f], f) :
            Covered(all_devices, parse_json_file(json[f], f)[i])

\* C8's case: the loop ended after a.kismet, listed first, failed (it has never
\* been processed) and b.kismet, listed after it, was converted and merged
C8_Witness ==
  /\ LoopEnded
  /\ "a.kismet" \notin DOMAIN processed_files
  /\ converted = {"b.kismet"}
  /\ all_devices # <<>>
  /\ all_devices[1].mac = "AA:BB:CC:DD:EE:FF"
  /\ all_devices[1].sources = <<"b.kismet">>

\* the source files a selection names
SelectedSources(selection) ==
  {SourceOfJson(selection[i]) : i \in DOMAIN selection}

\* C9: the list filter_devices has built when it has read every selected file
\* is the list the *.json files held at the moment the request started.
C9_ReadsOneSnapshot ==
  (q_pc = "reading" /\ selected_files = <<>>) => q_devices = q_expect

\* C10: the list filter_devices returns holds exactly the records of
\* all_devices whose sources intersect the selection, hence at most one
\* record per identifier.
C10_OneRecordPerIdentifier ==
  q_pc = "done" =>
    /\ Range(q_devices) =
         {all_devices[i] : i \in
            {k \in DOMAIN all_devices :
               Range(all_devices[k].sources) \cap SelectedSources(q_sel0) # {}}}
    /\ \A i, k \in DOMAIN q_devices :
          q_devices[i].mac = q_devices[k].mac => i = k

\* C11: the snapshot file on disk is never a partially written one: whenever
\* merged_devices.json.gz exists it is a complete snapshot, also after a
\* save that failed.
C11_SnapshotNeverPartial == saved.exists => saved.complete

\* C12: when the process has started again and a valid snapshot is on disk,
\* the Merge Store holds the records of that snapshot, keyed by identifier
\* with the last occurrence winning, before any cycle begins.
C12_RestoredAfterRestart ==
  (hist.restarted /\ pc = "sleep" /\ ~LoadFails(saved)) =>
    all_devices = load_devices(<<>>, saved)

\* C13: a call of load_devices whose load failed (file missing, truncated,
\* or holding an entry without identifier) leaves the Merge Store empty.
C13_FailedLoadLeavesEmpty ==
  (call.op = "load_devices" /\ call.returned /\ call.failed) =>
    call.all_devices = <<>>

\* the step that ends a cycle
EndCycleStep == pc = "loop" /\ kismet_files = <<>> /\ pc' = "sleep"

\* the step that begins one
StartCycleStep == pc = "sleep" /\ pc' = "loop"

\* at the end of a cycle, updated says whether a round of this cycle's merge
\* loop inserted or overwrote a record
UpdatedTracksChanges ==
  /\ StartCycleStep => ~updated'
  /\ IsMergeStep => updated' = (updated \/ all_devices' # all_devices)
  /\ (~IsMergeStep /\ ~StartCycleStep) =>
        (updated' = updated /\ all_devices' = all_devices)

Due(f) ==
  f \notin DOMAIN processed_files \/ src[f].mtime > processed_files[f]

\* the for loop of the cycle leaves the file it is at
VisitStep ==
  /\ pc = "loop" /\ kismet_files # <<>>
  /\ kismet_files' = Tail(kismet_files) \/ pc' # "loop"

\* the step calls convert_kismet_to_json for the file and the call is seen:
\* the tool starts, the artifact is accepted, or the failure is recorded
ConversionCalled ==
  \/ pc' \in {"converting", "merge"}
  \/ filename \in converted' \ converted
  \/ hist'.conv[filename] # hist.conv[filename]

\* C15: the cycle calls the conversion of a file only if the file has no
\* processed timestamp or its mtime is greater than the recorded one, and
\* passes over a file as already processed only if it has a recorded
\* timestamp that is not less than its mtime (an equal one included).
C15_SelectedIffDue ==
  [][VisitStep =>
       /\ ConversionCalled => Due(filename)
       /\ filename \in hist'.skipped => ~Due(filename)]_vars

\* b.kismet was passed over with its mtime equal to the recorded timestamp,
\* and a.kismet, modified after it was processed, is converted again
C15_Witness ==
  /\ pc = "converting" /\ filename = "a.kismet"
  /\ hist.skipped = {"b.kismet"}
  /\ processed_files["b.kismet"] = src["b.kismet"].mtime
  /\ "a.kismet" \in DOMAIN processed_files
  /\ src["a.kismet"].mtime > processed_files["a.kismet"]

\* C16: the external converter is never started for a file that a run of the
\* converter has converted successfully and that was not modified since, in
\* the process that converted it or in a later one.
C16_NoReconversion ==
  [][(pc = "loop" /\ pc' = "converting") =>
       hist.conv[filename] \notin {"ok", "reused"}]_vars

\* C17 as stated: after the conversion of a file has failed (tool missing or
\* non-zero exit), no later cycle calls the conversion of that file until
\* its mtime has advanced.
C17_NoRetryBeforeModified ==
  [][(VisitStep /\ ConversionCalled) => hist.conv[filename] # "failed"]_vars

\* C17 amended: a file whose conversion failed keeps the processed timestamp
\* it had, so it stays due while its mtime is the same, and no later cycle
\* passes it over as already processed.
C17_FailedStaysDue ==
  [][/\ \A f \in KismetFiles : hist.conv[f] = "failed" => Due(f)
     /\ \A f \in KismetFiles : hist'.conv[f] = "failed" => Due(f)'
     /\ (VisitStep /\ hist.conv[filename] = "failed") =>
           filename \notin hist'.skipped]_vars

\* the tool runs again for a file whose conversion failed in an earlier
\* cycle and whose mtime is the one it had then
C17_Witness ==
  /\ pc = "converting"
  /\ hist.conv[filename] = "failed"
  /\ filename \notin DOMAIN processed_files
  /\ src[filename].mtime = current_mod_time

\* C18: whenever convert_kismet_to_json is not running, every artifact that
\* exists is a complete conversion, never a partially written file.
C18_NoPartialArtifact ==
  pc # "converting" =>
    \A f \in KismetFiles : json[f].exists => json[f].complete

\* the tool can still be run on f (the clock of the model has not run out)
Convertible(f) == now[f] <= MaxTime

\* C19: the monitor goes on for ever: it is at time.sleep again and again and
\* begins a cycle again and again, also after a cycle that ended with an
\* exception, and no file stays due and convertible for ever.
C19_SchedulerKeepsCycling ==
  /\ []<>(pc = "sleep")
  /\ []<>(pc = "loop")
  /\ \A f \in KismetFiles : ~<>[](Due(f) /\ Convertible(f))

\* a cycle runs after a call of update_merged_devices that raised, and has
\* processed a file
C19_Witness ==
  /\ pc = "loop"
  /\ hist.raised
  /\ converted # {}

\* the query with an invalid page number replaced by page 1 and an invalid
\* file selection by the empty one
SafeQuery(query) ==
  [k \in DOMAIN query |->
     CASE k = "page" ->
            IF IsInt(query[k]) /\ int(query[k]) >= 1 THEN query[k] ELSE "1"
       [] k = "files" -> IF IsJson(query[k]) THEN query[k] ELSE "[]"]

\* C20: a /devices request with an invalid page number (not a number, zero,
\* negative) gets the response of the same request for page 1, one with
\* invalid JSON as file selection gets the response for the empty selection,
\* and neither ends with an exception.
C20_BadInputServedSafely ==
  (call.op = "GET /devices" /\ call.returned) =>
    /\ call.response.status = "200"
    /\ call.response = do_GET(call.files, SafeQuery(call.query))

\* the step in which the monitor parses the artifact of the file in hand
ParseStep == pc \in {"loop", "converting"} /\ pc' = "merge"

\* C21: parsing an artifact yields exactly one record per entry of the
\* artifact; an entry that lacks a canonical field (here the frequency)
\* gets the default and does not drop the records of the other entries.
C21_OneRecordPerEntry ==
  [][(ParseStep /\ CanLoad(json'[filename]))
       => /\ Len(devices') = Len(Dumps[json'[filename].dump])
          /\ \A i \in DOMAIN devices' :
                devices'[i].mac =
                  Dumps[json'[filename].dump][i]["kismet.device.base.macaddr"]]_vars

\* ceil(n / PAGE_SIZE)
LastPage(n) == (n + PAGE_SIZE - 1) \div PAGE_SIZE

\* C22: for N filtered records, page ceil(N/100) holds N mod 100 records (100
\* when N is a positive multiple of 100), every earlier page holds exactly
\* 100, every later page is empty and no error, and the total is N.
C22_PageSizes ==
  (call.op = "page" /\ call.returned) =>
    LET N == Len(call.filtered_devices)
        size == Len(call.response.devices)
    IN /\ call.response.status = "200"
       /\ call.response.total = N
       /\ call.page < LastPage(N) => size = PAGE_SIZE
       /\ call.page = LastPage(N) =>
            size = (IF N % PAGE_SIZE = 0 THEN PAGE_SIZE ELSE N % PAGE_SIZE)
       /\ call.page > LastPage(N) => size = 0
       /\ \A i \in 1..size :
            call.response.devices[i] =
              call.filtered_devices[(call.page - 1) * PAGE_SIZE + i]

\* a short last page after two full ones
C22_Witness ==
  /\ call.op = "page" /\ call.returned
  /\ Len(call.filtered_devices) = 250 /\ call.page = 3
  /\ Len(call.response.devices) = 50

\* the place of the record of identifier mac in a list
Pos(list, mac) == CHOOSE i \in DOMAIN list : list[i].mac = mac

SameRecords(a, b) == Len(a) = Len(b) /\ Range(a) = Range(b)

\* C23: the descending and the ascending sort by packet count order two
\* records of different counts in opposite ways, by the numeric value of the
\* counts, and both leave two records of equal counts in the order the list
\* had them.
C23_StableBothWays ==
  (call.op = "sort" /\ call.returned = {"asc", "desc"}) =>
    /\ SameRecords(call.asc, call.devices)
    /\ SameRecords(call.desc, call.devices)
    /\ \A i, j \in DOMAIN call.devices :
         LET a == call.devices[i]
             b == call.devices[j]
         IN /\ a.packets < b.packets =>
                 /\ Pos(call.asc, a.mac) < Pos(call.asc, b.mac)
                 /\ Pos(call.desc, a.mac) > Pos(call.desc, b.mac)
            /\ (a.packets = b.packets /\ i < j) =>
                 /\ Pos(call.asc, a.mac) < Pos(call.asc, b.mac)
                 /\ Pos(call.desc, a.mac) < Pos(call.desc, b.mac)

\* both orders of a list with a tie and with 9 and 10 out of numeric order
C23_Witness ==
  /\ call.op = "sort" /\ call.returned = {"asc", "desc"}
  /\ Len(call.devices) = 3
  /\ call.devices[1].packets = 10
  /\ call.devices[2].packets = 9
  /\ call.devices[3].packets = 10
  /\ call.asc # call.devices /\ call.desc # call.devices

\* type, identifier, vendor, name, channel and comment joined by spaces
AllText(d) ==
  join(" ", <<d.type, d.mac, d.vendor, d.name, d.channel, CommentText(d)>>)

\* Q occurs in the text when letter case is ignored
OccursIgnoringCase(Q, text) ==
  \E i \in 1..Len(text) : \E j \in i..Len(text) :
     lower(SubSeq(text, i, j)) = lower(Q)

\* the records of the selected files before the search, in the order returned
Unsearched ==
  filter_devices(call.files, "", "all", call.sort_column, call.sort_asc,
                 call.selected_files)

\* C24: for a non-empty query Q, the records returned are exactly those of
\* the selected files in which Q occurs, letter case ignored, in the
\* space-joined type, identifier, vendor, name, channel and comment when the
\* field is "all", and in the string form of the named field otherwise.
C24_RetainedIffSubstring ==
  (call.op = "filter_devices" /\ call.returned /\ call.search_query # "") =>
    LET retained(d) ==
          OccursIgnoringCase(call.search_query,
                             IF call.search_field = "all" THEN AllText(d)
                             ELSE StrField(d, call.search_field))
    IN call.result = SelectSeq(Unsearched, retained)

\* a query matched across the type and the identifier of one record of three
C24_Witness ==
  /\ call.op = "filter_devices" /\ call.returned
  /\ call.search_query = "AP aa" /\ call.search_field = "all"
  /\ Len(Unsearched) = 3
  /\ Len(call.result) = 1

\* a query matched in the comment alone, and one matched in a named field
C24_WitnessField ==
  /\ call.op = "filter_devices" /\ call.returned
  /\ \/ call.search_query = "5180.5" /\ call.search_field = "all"
     \/ call.search_query = "LAB 6" /\ call.search_field = "all"
  /\ Len(call.result) = 1 /\ Len(Unsearched) > 1

\* the selection do_GET passes to filter_devices for a query string
SelectedOf(query) ==
  IF IsJson(Get(query, "files", "[]")) THEN json_loads(Get(query, "files", "[]"))
  ELSE <<>>

IsDownload(query) == "download" \in DOMAIN query

\* C25: a request whose selection of files is empty is answered with no
\* record and total = 0 (an export: with the header row alone), whatever its
\* search string, field, sort column and direction are.
C25_EmptySelectionEmptyResult ==
  (call.op = "GET /devices" /\ call.returned /\ SelectedOf(call.query) = <<>>) =>
    /\ call.response.status = "200"
    /\ IF IsDownload(call.query)
       THEN call.response.csv = join(",", headers) \o "\n"
       ELSE call.response.devices = <<>> /\ call.response.total = 0

\* an empty selection with a search string, a field, a sort column outside
\* the table and a direction, on a directory that has records
C25_Witness ==
  /\ call.op = "GET /devices" /\ call.returned
  /\ "files" \in DOMAIN call.query /\ call.query["files"] = "[]"
  /\ DOMAIN call.query = {"files", "search", "field", "sort", "order"}
  /\ call.query["sort"] = "9"
  /\ call.query["search"] = "wi-fi"
  /\ CanLoad(call.files["a.kismet"])
  /\ call.response.total = 0

\* the number of line breaks in a text
LineBreaks(text) ==
  Cardinality({i \in 1..Len(text) : SubSeq(text, i, i) = "\n"})

\* the records the export of the request renders
Exported ==
  filter_devices(call.files, Get(call.query, "search", ""),
                 Get(call.query, "field", "all"),
                 int(Get(call.query, "sort", "0")),
                 Get(call.query, "order", "asc") = "asc",
                 SelectedOf(call.query))

\* C26: the export holds the header line and exactly one line for each
\* record it renders.
C26_OneLinePerRecord ==
  (call.op = "GET /devices" /\ call.returned /\ IsDownload(call.query)
     /\ call.response.status = "200") =>
    LineBreaks(call.response.csv) = 1 + Len(Exported)

\* C27: between cycles, a file whose processed timestamp is its current
\* modification time and whose artifact is a finished conversion has an
\* artifact converted from the content the file has at that modification
\* time.
C27_ArtifactOfCurrentContent ==
  pc = "sleep" =>
    \A f \in KismetFiles :
       (/\ Get(processed_files, f, NoTime) = src[f].mtime
        /\ json[f].exists /\ json[f].complete)
         => json[f].dump = src[f].dump

\* C28: whenever convert_kismet_to_json returns success for the file in
\* hand, the artifact of that file is one a run of the tool that exited with
\* status 0 wrote, never the output a failed run left.
C28_AcceptedArtifactIsFinished ==
  [][ParseStep => (json'[filename].exists /\ json'[filename].complete)]_vars

====
